---- MODULE Spec2Model ----
(***************************************************************************)
(* Model of .github/scripts/gemini_review.py: the patch line mapper        *)
(* (parse_diff_to_changed_lines), the review requester (get_ai_review)     *)
(* and the comment filter and dispatcher (main).                           *)
(*                                                                         *)
(* Two specifications share the module.  SpecParse runs                    *)
(* parse_diff_to_changed_lines line by line over bounded patch texts; Spec *)
(* runs main() over bounded environments, file lists and AI responses.     *)
(***************************************************************************)
EXTENDS Integers, Sequences, FiniteSets, TLC

VARIABLES
    \* ---- parse_diff_to_changed_lines (one call) ----
    ppc,                \* position in the function: "entry", "loop", "returned"
    patch,              \* the argument: None or Some(text)
    lines,              \* patch.split("\n")
    li,                 \* number of lines the for loop has consumed
    current_new_line,   \* the cursor
    changed_lines,      \* the set under construction / returned
    src,                \* history: the labelled lines the patch text was built from
    hunk,               \* history: label of the last hunk header consumed (NoHunk if none)
    produced,           \* history: <<recorded value, hunk label>> of every '+' line consumed
    \* ---- main() ----
    pc,                 \* position in main: "start", "loop", "exited" (an early
                        \* return), "done" (the end of main), "raised"
    env,                \* which of the four environment variables are set (non-empty)
    event,              \* whether the event payload holds "pull_request"
    files,              \* pr.get_files(): sequence of [filename, status, patch]
    idx,                \* number of files the for loop has taken
    review_items,       \* what the last get_ai_review call returned
    comments_to_post,   \* the accumulated batch
    ai_calls,           \* history: filenames get_ai_review was called with
    reviews,            \* history: pr.create_review calls, [event, body, comments, ok]
    output,             \* history: what print() wrote, by kind
    exception           \* "none", or the place an uncaught exception left main from

pvars == <<ppc, patch, lines, li, current_new_line, changed_lines, src, hunk, produced>>
mvars == <<pc, env, event, files, idx, review_items, comments_to_post, ai_calls,
           reviews, output, exception>>
vars == <<pvars, mvars>>

-----------------------------------------------------------------------------
(* Bounds *)
MaxPatchLines == 3
MaxFiles == 2
MaxItems == 2

-----------------------------------------------------------------------------
(* Python values *)
None == <<>>
Some(s) == <<s>>

\* truthiness of an Optional[str]: None and "" are falsy
Truthy(p) == p # None /\ Len(p[1]) > 0

CharAt(s, i) == SubSeq(s, i, i)

\* str.startswith
StartsWith(s, prefix) ==
    Len(s) >= Len(prefix) /\ SubSeq(s, 1, Len(prefix)) = prefix

Digits == "0123456789"

\* \d
IsDigit(c) == \E d \in 1..10 : CharAt(Digits, d) = c

DigitVal(c) == CHOOSE d \in 0..9 : CharAt(Digits, d + 1) = c

\* int(str) on a run of decimal digits
RECURSIVE ParseInt(_)
ParseInt(s) ==
    IF Len(s) = 0 THEN 0
    ELSE ParseInt(SubSeq(s, 1, Len(s) - 1)) * 10 + DigitVal(CharAt(s, Len(s)))

\* str.split("\n")
RECURSIVE SplitFrom(_, _, _)
SplitFrom(s, start, i) ==
    IF i > Len(s) THEN <<SubSeq(s, start, Len(s))>>
    ELSE IF CharAt(s, i) = "\n"
         THEN <<SubSeq(s, start, i - 1)>> \o SplitFrom(s, i + 1, i + 1)
         ELSE SplitFrom(s, start, i + 1)

Split(s) == SplitFrom(s, 1, 1)

-----------------------------------------------------------------------------
(* hunk_header_regex: ^@@ -(\d+)(?:,\d+)? \+(\d+)(?:,\d+)? @@               *)
(* Positions are 1-based indexes of the next unread character; 0 = no match *)

\* a literal at position i
Lit(s, i, lit) ==
    IF i > 0 /\ i + Len(lit) - 1 <= Len(s) /\ SubSeq(s, i, i + Len(lit) - 1) = lit
    THEN i + Len(lit)
    ELSE 0

\* end of the longest run of digits starting at i
RECURSIVE DigitsEnd(_, _)
DigitsEnd(s, i) ==
    IF i <= Len(s) /\ IsDigit(CharAt(s, i)) THEN DigitsEnd(s, i + 1) ELSE i

\* \d+ (greedy; what may follow it in the pattern is never a digit)
Number(s, i) ==
    IF i > 0 /\ DigitsEnd(s, i) > i THEN DigitsEnd(s, i) ELSE 0

\* (?:,\d+)?
OptCount(s, i) ==
    IF i > 0 /\ Number(s, Lit(s, i, ",")) > 0 THEN Number(s, Lit(s, i, ",")) ELSE i

\* variant: the cursor is taken from old_start (group 1) instead of new_start
HunkHeaderMatchOldStart(line) ==
    LET g1 == Lit(line, 1, "@@ -")
        e1 == Number(line, g1)
        g2 == Lit(line, OptCount(line, e1), " +")
        e2 == Number(line, g2)
        fin == Lit(line, OptCount(line, e2), " @@")
    IN  IF fin > 0
        THEN [matched |-> TRUE, group2 |-> SubSeq(line, g1, e1 - 1)]
        ELSE [matched |-> FALSE, group2 |-> ""]

HunkHeaderMatch(line) ==
    LET g1 == Lit(line, 1, "@@ -")
        e1 == Number(line, g1)
        g2 == Lit(line, OptCount(line, e1), " +")
        e2 == Number(line, g2)
        fin == Lit(line, OptCount(line, e2), " @@")
    IN  IF fin > 0
        THEN [matched |-> TRUE, group2 |-> SubSeq(line, g2, e2 - 1)]
        ELSE [matched |-> FALSE, group2 |-> ""]

-----------------------------------------------------------------------------
(* parse_diff_to_changed_lines *)

\* variant: a removed line advances the cursor like a context line
ParseLineDelAdvances(st, line) ==
    LET match == HunkHeaderMatch(line) IN
    IF match.matched
    THEN [st EXCEPT !.current_new_line = ParseInt(match.group2)]
    ELSE IF StartsWith(line, "+")
    THEN [current_new_line |-> st.current_new_line + 1,
          changed_lines |-> st.changed_lines \cup {st.current_new_line}]
    ELSE IF StartsWith(line, " ") \/ StartsWith(line, "-")
    THEN [st EXCEPT !.current_new_line = st.current_new_line + 1]
    ELSE st

\* one iteration of the for loop, on the locals st = [current_new_line, changed_lines]
ParseLine(st, line) ==
    LET match == HunkHeaderMatch(line) IN
    IF match.matched
    THEN [st EXCEPT !.current_new_line = ParseInt(match.group2)]
    ELSE IF StartsWith(line, "+")
    THEN [current_new_line |-> st.current_new_line + 1,
          changed_lines |-> st.changed_lines \cup {st.current_new_line}]
    ELSE IF StartsWith(line, " ")
    THEN [st EXCEPT !.current_new_line = st.current_new_line + 1]
    ELSE st

RECURSIVE ParseLines(_, _)
ParseLines(st, ls) ==
    IF ls = <<>> THEN st ELSE ParseLines(ParseLine(st, Head(ls)), Tail(ls))

\* the whole function
ParseDiffToChangedLines(p) ==
    IF ~Truthy(p) THEN {}
    ELSE ParseLines([current_new_line |-> 0, changed_lines |-> {}],
                    Split(p[1])).changed_lines

-----------------------------------------------------------------------------
(* Patch texts given to parse_diff_to_changed_lines.  Each line carries a   *)
(* label saying what kind of diff line it is, kept apart from the text the  *)
(* function reads.                                                          *)

HunkLines ==
    { [text |-> "@@ -10,3 +20,3 @@", kind |-> "hunk", new_start |-> 20],
      [text |-> "@@ -7 +3 @@ def f():", kind |-> "hunk", new_start |-> 3],
      [text |-> "@@ -1,2 +0,0 @@", kind |-> "hunk", new_start |-> 0] }

BodyLines ==
    { [text |-> " ctx", kind |-> "ctx", new_start |-> 0],
      [text |-> "+added1", kind |-> "add", new_start |-> 0],
      [text |-> "+added2", kind |-> "add", new_start |-> 0],
      [text |-> "-old", kind |-> "del", new_start |-> 0],
      [text |-> "\\ No newline at end of file", kind |-> "other", new_start |-> 0],
      [text |-> "@@ -1 +x @@", kind |-> "other", new_start |-> 0],
      [text |-> "", kind |-> "other", new_start |-> 0] }

LineTable == HunkLines \cup BodyLines

\* the patch of the documented example: header, context line, two additions
ExampleSrc ==
    << [text |-> "@@ -10,3 +20,3 @@", kind |-> "hunk", new_start |-> 20],
       [text |-> " ctx", kind |-> "ctx", new_start |-> 0],
       [text |-> "+added1", kind |-> "add", new_start |-> 0],
       [text |-> "+added2", kind |-> "add", new_start |-> 0] >>

PatchSources ==
    UNION { [1..n -> LineTable] : n \in 0..MaxPatchLines } \cup {ExampleSrc}

\* the text of a patch: its lines joined by newlines
RECURSIVE JoinLines(_)
JoinLines(ls) ==
    IF Len(ls) = 0 THEN ""
    ELSE IF Len(ls) = 1 THEN ls[1].text
    ELSE ls[1].text \o "\n" \o JoinLines(Tail(ls))

-----------------------------------------------------------------------------
(* SpecParse: one call of parse_diff_to_changed_lines, a loop iteration per *)
(* step                                                                     *)

MainIdle ==
    /\ pc = "idle"
    /\ env = {}
    /\ event = FALSE
    /\ files = <<>>
    /\ idx = 0
    /\ review_items = None
    /\ comments_to_post = <<>>
    /\ ai_calls = <<>>
    /\ reviews = <<>>
    /\ output = <<>>
    /\ exception = "none"

InitParse ==
    /\ ppc = "entry"
    /\ src \in PatchSources
    /\ patch \in IF src = <<>> THEN {None, Some("")} ELSE {Some(JoinLines(src))}
    /\ lines = <<>>
    /\ li = 0
    /\ current_new_line = 0
    /\ changed_lines = {}
    /\ hunk = None
    /\ produced = {}
    /\ MainIdle

\* lines 14-24: the empty-patch return, the cursor's start, the split
ParseEntry ==
    /\ ppc = "entry"
    /\ IF ~Truthy(patch)
       THEN /\ ppc' = "returned"
            /\ UNCHANGED <<lines, current_new_line>>
       ELSE /\ ppc' = "loop"
            /\ lines' = Split(patch[1])
            /\ current_new_line' = 0
    /\ changed_lines' = {}
    /\ li' = 0
    /\ UNCHANGED <<patch, src, hunk, produced, mvars>>

\* lines 25-38: one iteration of the for loop
ParseIter ==
    /\ ppc = "loop"
    /\ li < Len(lines)
    /\ LET st == ParseLine([current_new_line |-> current_new_line,
                            changed_lines |-> changed_lines], lines[li + 1])
           label == src[li + 1]
       IN  /\ current_new_line' = st.current_new_line
           /\ changed_lines' = st.changed_lines
           /\ hunk' = IF label.kind = "hunk" THEN Some(label.new_start) ELSE hunk
           /\ produced' = IF label.kind = "add"
                          THEN produced \cup {[value |-> current_new_line, hunk |-> hunk]}
                          ELSE produced
    /\ li' = li + 1
    /\ UNCHANGED <<ppc, patch, lines, src, mvars>>

\* line 40
ParseReturn ==
    /\ ppc = "loop"
    /\ li = Len(lines)
    /\ ppc' = "returned"
    /\ UNCHANGED <<patch, lines, li, current_new_line, changed_lines, src, hunk,
                   produced, mvars>>

NextParse == ParseEntry \/ ParseIter \/ ParseReturn

SpecParse == InitParse /\ [][NextParse]_vars

-----------------------------------------------------------------------------
(* JSON values as json.loads returns them, tagged with their Python type    *)

JDict(d) == [t |-> "dict", v |-> d]
JList(s) == [t |-> "list", v |-> s]
JStr(s) == [t |-> "str", v |-> s]
JNull == [t |-> "NoneType"]
Unbound == [t |-> "unbound"]

\* dict.get(key): None when the key is missing
Get(d, key) == IF key \in DOMAIN d THEN Some(d[key]) ELSE None

-----------------------------------------------------------------------------
(* The AI service's response text, as a sequence of tokens: an opening      *)
(* opening fence tagged json, a bare three-backtick fence, a well-formed    *)
(* JSON document, or anything else                                         *)

FenceJson == [tok |-> "fence_json"]
Fence == [tok |-> "fence"]
Prose == [tok |-> "prose"]
Json(v) == [tok |-> "json", value |-> v]

\* lines 100-101: the json-tagged opening fence is cut off
StripFenceJson(text) ==
    IF Len(text) > 0 /\ Head(text) = FenceJson THEN Tail(text) ELSE text

\* lines 102-103: a bare opening fence is cut off
StripFenceOpen(text) ==
    IF Len(text) > 0 /\ Head(text) = Fence THEN Tail(text) ELSE text

\* lines 104-105: a closing fence is cut off
StripFenceClose(text) ==
    IF Len(text) > 0 /\ text[Len(text)] = Fence
    THEN SubSeq(text, 1, Len(text) - 1)
    ELSE text

\* json.loads: the document when the text is exactly one, else JSONDecodeError
JsonLoads(text) ==
    IF Len(text) = 1 /\ text[1].tok = "json"
    THEN [raised |-> FALSE, value |-> text[1].value]
    ELSE [raised |-> TRUE, value |-> JNull]

\* get_ai_review under one behaviour of the AI service.  ai.kind is
\* "model_error" (GenerativeModel(...) raises), "call_error"
\* (generate_content or response.text raises) or "text" (ai.text is returned).
\* Yields what the caller sees: a returned value, or a propagated exception.
GetAiReview(ai) ==
    IF ai.kind = "model_error"
    THEN [raised |-> TRUE, value |-> Unbound, printed |-> FALSE]
    ELSE IF ai.kind = "call_error"
    THEN [raised |-> FALSE, value |-> JList(<<>>), printed |-> TRUE]
    ELSE LET loaded == JsonLoads(StripFenceClose(StripFenceOpen(StripFenceJson(ai.text))))
         IN  IF loaded.raised
             THEN [raised |-> FALSE, value |-> JList(<<>>), printed |-> TRUE]
             ELSE [raised |-> FALSE, value |-> loaded.value, printed |-> FALSE]

-----------------------------------------------------------------------------
(* main: the filter over one file's review items (lines 164-179)            *)

\* variant: the membership test is dropped, any line number passes
LineInChangedAny(line, changed) == line # None

\* line 168: line in changed_lines, for line = item.get("line")
LineInChanged(line, changed) == line # None /\ line[1] \in changed

\* variant: every comment is attributed to one fixed path
AcceptedCommentFixedPath(file, line, message) ==
    [path |-> "a.go", line |-> line[1], side |-> "RIGHT",
     body |-> IF message = None THEN "None" ELSE message[1]]

\* lines 170-177
AcceptedComment(file, line, message) ==
    [path |-> file.filename, line |-> line[1], side |-> "RIGHT",
     body |-> IF message = None THEN "None" ELSE message[1]]

\* the for loop over a list, from the locals acc = [comments, output, raised];
\* item.get on an item that is no dict raises AttributeError.  The two
\* per-item print calls (lines 169, 179) are left out of the output log.
RECURSIVE FilterItems(_, _, _, _)
FilterItems(file, changed, items, acc) ==
    IF items = <<>> THEN acc
    ELSE LET item == Head(items) IN
         IF item.t # "dict"
         THEN [acc EXCEPT !.raised = "AttributeError"]
         ELSE LET line == Get(item.v, "line")
                  message == Get(item.v, "message")
              IN  IF LineInChanged(line, changed)
                  THEN FilterItems(file, changed, Tail(items),
                         [acc EXCEPT !.comments = Append(@, AcceptedComment(file, line, message))])
                  ELSE FilterItems(file, changed, Tail(items), acc)

\* for item in review_items: a list is walked; a dict yields its keys, which
\* are strings; None is not iterable
FilterReview(file, changed, value, acc) ==
    IF value.t = "list" THEN FilterItems(file, changed, value.v, acc)
    ELSE IF value.t = "dict"
    THEN IF DOMAIN value.v = {} THEN acc ELSE [acc EXCEPT !.raised = "AttributeError"]
    ELSE [acc EXCEPT !.raised = "TypeError"]

-----------------------------------------------------------------------------
(* Inputs of a run of main                                                  *)

EnvVars == {"GITHUB_TOKEN", "GEMINI_API_KEY", "GITHUB_EVENT_PATH", "GITHUB_REPOSITORY"}

\* the i-th file of the pull request: names are distinct within a pull request
FileName(i) == SubSeq("abcdefghijklmnopqrstuvwxyz", i, i) \o ".go"

\* changed lines {5, 7}
Patch57 == "@@ -3,2 +5,3 @@\n+x\n y\n+z"
\* changed lines {6}
Patch6 == "@@ -6 +6 @@\n-o\n+n"

FilePatches == {None, Some(""), Some(Patch57), Some(Patch6)}

FileLists ==
    UNION { { fs \in [1..n -> [filename : {FileName(i) : i \in 1..n},
                               status : {"modified", "removed"},
                               patch : FilePatches]] :
              \A i \in 1..n : fs[i].filename = FileName(i) } : n \in 0..MaxFiles }

CandLines == {5, 6, 7}

Cand(n) == JDict([line |-> n,
                  message |-> IF n = 5 THEN "rename x" ELSE IF n = 6 THEN "wrap the error"
                              ELSE "split this function"])

CandLists == UNION { [1..n -> {Cand(n2) : n2 \in CandLines}] : n \in 0..MaxItems }

List567 == JList(<<Cand(5), Cand(6), Cand(7)>>)

\* documents that are no array of {line, message} records, or not only that
OddValues ==
    { JNull,
      JDict([comments |-> "x"]),
      JDict(<<>>),
      JList(<<JStr("no issues")>>),
      JList(<<Cand(5), JStr("no issues")>>),
      JList(<<JDict([message |-> "rename x"])>>),
      JList(<<JDict([line |-> 6]), Cand(6)>>) }

Texts ==
    { <<Json(JList(l))>> : l \in CandLists } \cup
    { <<Json(v)>> : v \in OddValues } \cup
    { <<Json(List567)>>,
      <<FenceJson, Json(List567), Fence>>,
      <<Fence, Json(List567), Fence>>,
      <<FenceJson, Json(List567)>>,
      <<Prose, Json(List567)>>,
      <<FenceJson, Fence>>,
      <<>> }

AIOutcomes ==
    { [kind |-> "text", text |-> t] : t \in Texts }
    \cup { [kind |-> "call_error", text |-> <<>>], [kind |-> "model_error", text |-> <<>>] }

-----------------------------------------------------------------------------
(* Spec: a run of main                                                      *)

ParseIdle ==
    /\ ppc = "idle"
    /\ patch = None
    /\ lines = <<>>
    /\ li = 0
    /\ current_new_line = 0
    /\ changed_lines = {}
    /\ src = <<>>
    /\ hunk = None
    /\ produced = {}

Init ==
    /\ pc = "start"
    /\ env \in SUBSET EnvVars
    /\ event \in BOOLEAN
    /\ files \in FileLists
    /\ idx = 0
    /\ review_items = Unbound
    /\ comments_to_post = <<>>
    /\ ai_calls = <<>>
    /\ reviews = <<>>
    /\ output = <<>>
    /\ exception = "none"
    /\ ParseIdle

\* lines 114-147: configuration, event payload, pull request lookup
Setup ==
    /\ pc = "start"
    /\ IF "GITHUB_TOKEN" \notin env \/ "GEMINI_API_KEY" \notin env
       THEN /\ output' = Append(output, "Error: GITHUB_TOKEN and GEMINI_API_KEY are required.")
            /\ pc' = "exited"
            /\ UNCHANGED exception
       ELSE IF "GITHUB_EVENT_PATH" \notin env
       THEN /\ pc' = "raised"
            /\ exception' = "KeyError: GITHUB_EVENT_PATH"
            /\ UNCHANGED output
       ELSE IF ~event
       THEN /\ output' = Append(output, "Not a pull request event. Exiting.")
            /\ pc' = "exited"
            /\ UNCHANGED exception
       ELSE IF "GITHUB_REPOSITORY" \notin env
       THEN /\ pc' = "raised"
            /\ exception' = "KeyError: GITHUB_REPOSITORY"
            /\ UNCHANGED output
       ELSE /\ output' = Append(output, "Reviewing PR")
            /\ pc' = "loop"
            /\ UNCHANGED exception
    /\ comments_to_post' = <<>>
    /\ UNCHANGED <<env, event, files, idx, review_items, ai_calls, reviews, pvars>>

\* variant: the status is compared with a word the platform never reports
IsRemovedWrongWord(file) == file.status = "deleted"

\* line 150
IsRemoved(file) == file.status = "removed"

\* lines 149-179: one iteration of the loop over the files
ProcessFile ==
    /\ pc = "loop"
    /\ idx < Len(files)
    /\ idx' = idx + 1
    /\ LET file == files[idx + 1] IN
       IF IsRemoved(file)
       THEN UNCHANGED <<pc, review_items, comments_to_post, ai_calls, output, exception>>
       ELSE IF ~Truthy(file.patch)
       THEN /\ output' = Append(output, "Skipping (no patch available)")
            /\ UNCHANGED <<pc, review_items, comments_to_post, ai_calls, exception>>
       ELSE \E changed \in {ParseDiffToChangedLines(file.patch)}, ai \in AIOutcomes :
            LET got == GetAiReview(ai)
                out1 == Append(output, "Analyzing")
                out2 == IF got.printed
                        THEN Append(out1, "Error generating/parsing review")
                        ELSE out1
                res == FilterReview(file, changed, got.value,
                           [comments |-> comments_to_post, output |-> out2, raised |-> "none"])
            IN  /\ ai_calls' = Append(ai_calls, file.filename)
                /\ IF got.raised
                   THEN /\ pc' = "raised"
                        /\ exception' = "get_ai_review"
                        /\ output' = out1
                        /\ UNCHANGED <<review_items, comments_to_post>>
                   ELSE /\ review_items' = got.value
                        /\ comments_to_post' = res.comments
                        /\ output' = res.output
                        /\ exception' = res.raised
                        /\ pc' = IF res.raised = "none" THEN "loop" ELSE "raised"
    /\ UNCHANGED <<env, event, files, reviews, pvars>>

\* variant: a submission is made only for more than one comment
ShouldPostSeveral(comments) == Len(comments) > 1

\* line 181: if comments_to_post
ShouldPost(comments) == comments # <<>>

\* variant: no except clause, the failure of create_review leaves main
CreateReviewUncaught(ok) ==
    IF ok
    THEN [pc |-> "done", exception |-> "none", printed |-> <<"Review posted successfully.">>]
    ELSE [pc |-> "raised", exception |-> "create_review", printed |-> <<>>]

\* lines 183-192: the try around pr.create_review; ok says whether the call
\* returned (TRUE) or raised an Exception (FALSE)
CreateReview(ok) ==
    IF ok
    THEN [pc |-> "done", exception |-> "none", printed |-> <<"Review posted successfully.">>]
    ELSE [pc |-> "done", exception |-> "none", printed |-> <<"Failed to post review">>]

\* lines 181-194: the submission, once the loop over the files has ended
Submit ==
    /\ pc = "loop"
    /\ idx = Len(files)
    /\ IF ShouldPost(comments_to_post)
       THEN \E ok \in BOOLEAN :
            LET after == CreateReview(ok) IN
            /\ reviews' = Append(reviews, [event |-> "COMMENT",
                                           body |-> "Gemini Code Review Summary",
                                           comments |-> comments_to_post,
                                           ok |-> ok])
            /\ output' = output \o <<"Posting comments">> \o after.printed
            /\ pc' = after.pc
            /\ exception' = after.exception
       ELSE /\ output' = Append(output, "No comments to post.")
            /\ pc' = "done"
            /\ UNCHANGED <<reviews, exception>>
    /\ UNCHANGED <<env, event, files, idx, review_items, comments_to_post, ai_calls,
                   pvars>>

Next == Setup \/ ProcessFile \/ Submit

Spec == Init /\ [][Next]_vars

-----------------------------------------------------------------------------
(* Properties of parse_diff_to_changed_lines (under SpecParse)              *)

\* what one loop iteration does to the cursor and the set, by the kind of line
C3_IterEffect ==
    (ppc = "loop" /\ li' = li + 1) =>
        LET label == src[li'] IN
        CASE label.kind = "hunk" ->
                 /\ current_new_line' = label.new_start
                 /\ changed_lines' = changed_lines
          [] label.kind = "add" ->
                 /\ changed_lines' = changed_lines \cup {current_new_line}
                 /\ current_new_line' = current_new_line + 1
          [] label.kind = "ctx" ->
                 /\ current_new_line' = current_new_line + 1
                 /\ changed_lines' = changed_lines
          [] OTHER ->
                 /\ current_new_line' = current_new_line
                 /\ changed_lines' = changed_lines

\* C3: the lines are processed in order with a cursor: a hunk header sets the
\* cursor to its new_start and records nothing, a '+' line records the cursor
\* and then increments it, a ' ' line increments it without recording, a '-'
\* line and any other line change neither; and the patch
\* "@@ -10,3 +20,3 @@", " ctx", "+added1", "+added2" yields exactly {21, 22}.
C3_CursorAlgorithm ==
    /\ [][C3_IterEffect]_vars
    /\ [](ppc = "loop" => lines = [i \in 1..Len(src) |-> src[i].text])
    /\ []((ppc = "returned" /\ src = ExampleSrc) => changed_lines = {21, 22})

C3_Witness ==
    /\ ppc = "returned"
    /\ src = ExampleSrc
    /\ li = 4
    /\ current_new_line = 23
    /\ changed_lines = {21, 22}

\* C4: every member of the returned Changed-Line Set is a positive integer,
\* also when a '+' line precedes any hunk header or a header's new_start is 0.
C4_MembersPositive ==
    ppc = "returned" => \A n \in changed_lines : n >= 1

\* C10: every member of the Changed-Line Set is >= the new_start of the hunk
\* header that most recently preceded the '+' line which recorded it.
C10_MemberAtLeastNewStart ==
    /\ \A r \in produced : r.hunk # None => r.value >= r.hunk[1]
    /\ ppc \in {"loop", "returned"} => changed_lines = {r.value : r \in produced}

C10_Witness ==
    /\ ppc = "returned"
    /\ produced = {[value |-> 21, hunk |-> Some(20)]}
    /\ changed_lines = {21}

-----------------------------------------------------------------------------
(* Properties of main (under Spec)                                          *)

\* the file of the pull request a comment's path names
FileOf(c) == CHOOSE f \in {files[i] : i \in 1..Len(files)} : f.filename = c.path

Comments == {comments_to_post[i] : i \in 1..Len(comments_to_post)}

\* the Changed-Line Set parse_diff_to_changed_lines returns, tabulated over the
\* patches a file can carry
ChangedLineSet == [p \in FilePatches |-> ParseDiffToChangedLines(p)]

\* C1: in every state of a run, every comment of the accumulated batch has a
\* line number that is a member of the set parse_diff_to_changed_lines returns
\* for the patch of the file its path names.
C1_BatchLinesChanged ==
    \A c \in Comments :
        /\ \E i \in 1..idx : files[i].filename = c.path
        /\ c.line \in ChangedLineSet[FileOf(c).patch]
        /\ FileOf(c).patch = Some(Patch57) => c.line \in {5, 7}
        /\ FileOf(c).patch = Some(Patch6) => c.line = 6

C1_Witness ==
    /\ Len(files) = 2
    /\ \E c \in Comments : c.path = files[1].filename /\ c.line = 7
    /\ \E c \in Comments : c.path = files[2].filename /\ c.line = 6

\* a candidate comment: a {line, message} record
IsCandidate(item) == item.t = "dict" /\ DOMAIN item.v = {"line", "message"}

\* the accepted comments of a candidate list, for a Changed-Line Set
RECURSIVE AcceptedOf(_, _, _)
AcceptedOf(path, changed, cands) ==
    IF cands = <<>> THEN <<>>
    ELSE (IF Head(cands).v.line \in changed
          THEN <<[path |-> path, line |-> Head(cands).v.line, side |-> "RIGHT",
                  body |-> Head(cands).v.message]>>
          ELSE <<>>) \o AcceptedOf(path, changed, Tail(cands))

\* a step of the file loop in which the review step returned a candidate list
ReviewedStep ==
    /\ pc = "loop"
    /\ idx' = idx + 1
    /\ Len(ai_calls') = Len(ai_calls) + 1
    /\ exception' # "get_ai_review"
    /\ review_items'.t = "list"
    /\ \A i \in 1..Len(review_items'.v) : IsCandidate(review_items'.v[i])

C2_FilterStep ==
    ReviewedStep =>
        LET file == files[idx']
            changed == ChangedLineSet[file.patch]
        IN  /\ comments_to_post' =
                   comments_to_post \o AcceptedOf(file.filename, changed, review_items'.v)
            /\ (changed = {5, 7} /\ review_items' = List567) =>
                   comments_to_post' = comments_to_post \o
                       << [path |-> file.filename, line |-> 5, side |-> "RIGHT",
                           body |-> "rename x"],
                          [path |-> file.filename, line |-> 7, side |-> "RIGHT",
                           body |-> "split this function"] >>

\* C2: for each processed file a candidate is accepted into the batch iff its
\* line is in the file's Changed-Line Set; rejected candidates add nothing,
\* accepted ones are appended with the file's path, side "RIGHT" and the
\* candidate's message as body; for {5, 7} and candidates on lines 5, 6, 7
\* exactly the line-5 and line-7 candidates are accepted.
C2_AcceptIffChanged == [][C2_FilterStep]_vars

C2_Witness ==
    /\ pc = "loop"
    /\ idx = 1
    /\ files[1].patch = Some(Patch57)
    /\ review_items = List567
    /\ comments_to_post =
           << [path |-> "a.go", line |-> 5, side |-> "RIGHT", body |-> "rename x"],
              [path |-> "a.go", line |-> 7, side |-> "RIGHT",
               body |-> "split this function"] >>

\* the names of the files of fs that are reviewed: not removed, patch non-empty
RECURSIVE ReviewedNames(_)
ReviewedNames(fs) ==
    IF fs = <<>> THEN <<>>
    ELSE (IF Head(fs).status # "removed" /\ Head(fs).patch \notin {None, Some("")}
          THEN <<Head(fs).filename>> ELSE <<>>) \o ReviewedNames(Tail(fs))

C7_RequesterNeverFails ==
    /\ exception # "get_ai_review"
    /\ review_items.t \in {"unbound", "list"}
    /\ review_items.t = "list" =>
           \A i \in 1..Len(review_items.v) : IsCandidate(review_items.v[i])
    /\ exception \notin {"AttributeError", "TypeError"}

\* C8: if the review submission raises, main still runs to normal completion:
\* the failure is caught, no exception leaves main, no second submission.
C8_SubmissionFailureCaught ==
    (reviews # <<>> /\ ~reviews[1].ok) =>
        /\ pc = "done"
        /\ exception = "none"
        /\ Len(reviews) = 1
        /\ output[Len(output)] = "Failed to post review"

C8_Witness ==
    /\ reviews # <<>>
    /\ ~reviews[1].ok
    /\ pc = "done"
    /\ Len(comments_to_post) = 2

\* C9: if any of the four configuration inputs is absent, main stops with a
\* user-visible message rather than an uncaught exception, and makes no AI
\* review request and no review submission.
C9_MissingConfigStopsWithMessage ==
    (env # EnvVars /\ pc # "start") =>
        /\ pc = "exited"
        /\ exception = "none"
        /\ Len(output) = 1
        /\ ai_calls = <<>>
        /\ reviews = <<>>

====
